---- MODULE Spec2Model ----
(***************************************************************************)
(* Model of the LiDAR / camera fusion bridge (lidar_zmq_refined.cpp).      *)
(*                                                                         *)
(* Float angles are represented exactly as integers in units of 1/10240    *)
(* degree (AngleUnit): a raw device angle q (q14 fixed point, scaled by    *)
(* 360/16384 in the source) is q * 225 units, and decimal camera angles    *)
(* such as 12.4 are 126976 units.  Distances stay in the device's q2       *)
(* fixed point (1/4 mm, DistUnit).  Time is the value returned by          *)
(* getCurrentTimeMs(), advanced by the blocking calls and sleeps.          *)
(***************************************************************************)
EXTENDS Integers, Sequences, FiniteSets, TLC

(***************************************************************************)
(* Program constants                                                       *)
(***************************************************************************)
MAX_ANGLE_DIFF == 10
ANGLE_RESOLUTION == 1
MIN_DISTANCE_MM == 100
MAX_DISTANCE_MM == 3000
MAX_OBJECT_AGE_MS == 500
INIT_DELAY_MS == 2000
SCAN_DELAY_MS == 100
ANGLE_BUCKET_SIZE == 5
FORCE_PUBLISH_MS == 100
MAX_CONSECUTIVE_FAILURES == 3
Q14 == 16384
DistUnit == 4
\* least unit in which both the raw step 360 / Q14 = 45 / 2048 degree and
\* tenths of a degree are whole numbers
AngleUnit == 5 * (Q14 \div 8)

(***************************************************************************)
(* Bounds of the model                                                     *)
(***************************************************************************)
StartTime == 1000
Horizon == 6
MaxScanLen == 2
MaxBatch == 2
MaxArrivals == 2
MaxTurns == 2

\* the clock advances in granules of one heartbeat period
Ticks == {0, FORCE_PUBLISH_MS}
LoopStart == StartTime + 3 * INIT_DELAY_MS
MaxTime == LoopStart + Horizon * FORCE_PUBLISH_MS

(***************************************************************************)
(* Arithmetic helpers                                                      *)
(***************************************************************************)
Abs(x) == IF x < 0 THEN -x ELSE x

\* round(p / q) of <cmath>: nearest integer, halfway cases away from zero
Round(p, q) ==
    IF p >= 0 THEN (2 * p + q) \div (2 * q)
              ELSE -((2 * (-p) + q) \div (2 * q))

\* static_cast<int>(p / q): truncation toward zero
TruncInt(p, q) == IF p >= 0 THEN p \div q ELSE -((-p) \div q)

SetMin(S) == CHOOSE m \in S : \A x \in S : m <= x

Range(f) == {f[i] : i \in DOMAIN f}

(***************************************************************************)
(* Range Sampler                                                           *)
(***************************************************************************)
\* float rawAngle = (angle_z_q14 * 360.0f) / (1 << 14)
RawAngle(q) == q * ((360 * AngleUnit) \div Q14)

RECURSIVE WrapUp(_)
WrapUp(a) == IF a <= -180 * AngleUnit THEN WrapUp(a + 360 * AngleUnit) ELSE a

RECURSIVE WrapDown(_)
WrapDown(a) == IF a > 180 * AngleUnit THEN WrapDown(a - 360 * AngleUnit) ELSE a

\* the conversion with one adjustment in place of each loop
convertRawAngleToDegrees_once(raw_angle) ==
    LET a == -raw_angle
        up == IF a <= -180 * AngleUnit THEN a + 360 * AngleUnit ELSE a
    IN IF up > 180 * AngleUnit THEN up - 360 * AngleUnit ELSE up

convertRawAngleToDegrees(raw_angle) == WrapDown(WrapUp(-raw_angle))

roundToNearest(value, roundTo) == roundTo * Round(value, roundTo * AngleUnit)

\* quantization with the resolution of the other constant
quantizeAngle_resolution(angle) == roundToNearest(angle, ANGLE_RESOLUTION)

quantizeAngle(angle) == roundToNearest(angle, ANGLE_BUCKET_SIZE)

\* bucket of the earlier variant: round(angle / ANGLE_RESOLUTION) * ANGLE_RESOLUTION
quantizeEarly(angle) == Round(angle, ANGLE_RESOLUTION * AngleUnit) * ANGLE_RESOLUTION

BucketOf(variant, angle) ==
    IF variant = "refined" THEN quantizeAngle(angle) ELSE quantizeEarly(angle)

SampleAngle(s) == convertRawAngleToDegrees(RawAngle(s.angle_z_q14))
SampleDistance(s) == s.dist_mm_q2

\* the filter without its upper angle limit
AcceptSample_noRearLimit(angle, distance) ==
    /\ angle >= -90 * AngleUnit
    /\ distance >= MIN_DISTANCE_MM * DistUnit
    /\ distance <= MAX_DISTANCE_MM * DistUnit

\* the filter of the reduction loop: front 180 degrees, distance limits
AcceptSample(angle, distance) ==
    /\ angle >= -90 * AngleUnit
    /\ angle <= 90 * AngleUnit
    /\ distance >= MIN_DISTANCE_MM * DistUnit
    /\ distance <= MAX_DISTANCE_MM * DistUnit

\* the bucket test with the comparison reversed
KeepCloser_farther(points, bucketAngle, distance) ==
    \/ bucketAngle \notin DOMAIN points
    \/ distance > points[bucketAngle]

\* keep the closest point for each angle bucket
KeepCloser(points, bucketAngle, distance) ==
    \/ bucketAngle \notin DOMAIN points
    \/ distance < points[bucketAngle]

\* points[k] = v on a std::map
Put(points, k, v) == (k :> v) @@ points

NoPoints == [b \in {} |-> 0]

\* one iteration of the reduction loop; st holds both maps
ReduceStep(variant, st, s) ==
    LET angle == SampleAngle(s)
        distance == SampleDistance(s)
        bucketAngle == BucketOf(variant, angle)
    IN IF AcceptSample(angle, distance) /\ KeepCloser(st.points, bucketAngle, distance)
       THEN [points |-> Put(st.points, bucketAngle, distance),
             buckets |-> IF variant = "refined"
                         THEN Put(st.buckets, bucketAngle, distance)
                         ELSE st.buckets]
       ELSE st

\* the loop over nodes[lo-1..hi-1], in index order.  The range is split in two
\* halves and the left half is evaluated before the right one is entered, so
\* that the depth of the evaluation stays logarithmic in the scan length.
RECURSIVE ReduceRange(_, _, _, _, _)
ReduceRange(variant, nodes, lo, hi, st) ==
    IF lo > hi THEN st
    ELSE IF lo = hi THEN ReduceStep(variant, st, nodes[lo])
    ELSE LET mid == (lo + hi) \div 2
             left == ReduceRange(variant, nodes, lo, mid, st)
         IN IF left = left
            THEN ReduceRange(variant, nodes, mid + 1, hi, left)
            ELSE left

\* downsampledPoints.clear(); g_angle_buckets.clear(); then the loop
ReduceScan(variant, nodes) ==
    ReduceRange(variant, nodes, 1, Len(nodes),
                [points |-> NoPoints, buckets |-> NoPoints])

(***************************************************************************)
(* Object cache and objects-out publication                                *)
(***************************************************************************)
NoObjects == [k \in {} |-> 0]

NoMsg == [type |-> "NONE"]

\* the eviction test with >= for >
IsExpired_atLimit(current_time, obj) ==
    current_time - obj.last_update_ms >= MAX_OBJECT_AGE_MS

\* the eviction test of cleanOldObjects
IsExpired(current_time, obj) ==
    current_time - obj.last_update_ms > MAX_OBJECT_AGE_MS

cleanOldObjects(objs, current_time) ==
    [k \in {j \in DOMAIN objs : ~IsExpired(current_time, objs[j])} |-> objs[k]]

\* bool should_publish = force || (current_time - g_last_obj_publish_time >= FORCE_PUBLISH_MS)
ShouldPublish(force, current_time, last) ==
    force \/ (current_time - last >= FORCE_PUBLISH_MS)

\* the JSON array holding only the objects updated in this cycle
Snapshot_updatedOnly(objs, current_time) ==
    [k \in {j \in DOMAIN objs : objs[j].last_update_ms = current_time} |->
        [label |-> objs[k].label,
         confidence |-> objs[k].confidence,
         angle_deg |-> objs[k].angle_deg,
         distance_mm |-> objs[k].distance_mm,
         area |-> objs[k].area,
         timestamp |-> current_time]]

\* the JSON array built from g_objects, one objData per cache entry
Snapshot(objs, current_time) ==
    [k \in DOMAIN objs |->
        [label |-> objs[k].label,
         confidence |-> objs[k].confidence,
         angle_deg |-> objs[k].angle_deg,
         distance_mm |-> objs[k].distance_mm,
         area |-> objs[k].area,
         timestamp |-> current_time]]

\* the early return without the test for an empty cache
SkipPublish_noEmptyTest(force, current_time, last, objs) ==
    ~ShouldPublish(force, current_time, last)

\* if (!should_publish || g_objects.empty()) return;
SkipPublish(force, current_time, last, objs) ==
    ~ShouldPublish(force, current_time, last) \/ DOMAIN objs = {}

\* publishObjects that resets the timer only when the send went through
publishObjects_retryOnFailure(force, current_time, last, objs, sendOk) ==
    IF SkipPublish(force, current_time, last, objs)
    THEN [last |-> last, msg |-> NoMsg]
    ELSE LET correlatedObjects == Snapshot(objs, current_time)
         IN [last |-> IF sendOk THEN current_time ELSE last,
             msg |-> IF DOMAIN correlatedObjects # {}
                     THEN [type |-> "OBJECTS",
                           timestamp |-> current_time,
                           objects |-> correlatedObjects,
                           forced |-> force,
                           delivered |-> sendOk]
                     ELSE NoMsg]

\* publishObjects(force): the new timer value and the message handed to
\* g_corr_publisher->send (NoMsg when nothing is sent); sendOk tells whether
\* the send threw
publishObjects(force, current_time, last, objs, sendOk) ==
    IF SkipPublish(force, current_time, last, objs)
    THEN [last |-> last, msg |-> NoMsg]
    ELSE LET correlatedObjects == Snapshot(objs, current_time)
         IN [last |-> current_time,
             msg |-> IF DOMAIN correlatedObjects # {}
                     THEN [type |-> "OBJECTS",
                           timestamp |-> current_time,
                           objects |-> correlatedObjects,
                           forced |-> force,
                           delivered |-> sendOk]
                     ELSE NoMsg]

(***************************************************************************)
(* Detection correlator                                                    *)
(***************************************************************************)
\* the probe loop of findClosestLidarPoint over offset = -1, 0, 1
RECURSIVE ProbeFrom(_, _, _, _, _)
ProbeFrom(buckets, targetAngle, bucket, offset, best) ==
    IF offset > 1 THEN best
    ELSE LET checkBucket == bucket + offset * ANGLE_BUCKET_SIZE
             diff == Abs(targetAngle - checkBucket * AngleUnit)
             nxt == IF checkBucket \in DOMAIN buckets /\ diff < best.minDiff
                    THEN [bestDist |-> buckets[checkBucket], minDiff |-> diff]
                    ELSE best
         IN ProbeFrom(buckets, targetAngle, bucket, offset + 1, nxt)

findClosestLidarPoint(buckets, targetAngle) ==
    ProbeFrom(buckets, targetAngle, quantizeAngle(targetAngle), -1,
              [bestDist |-> -1 * DistUnit, minDiff |-> 9999 * AngleUnit])

\* exact bucket hit, else the adjacent buckets
Lookup(buckets, angleCam) ==
    LET quantizedAngleCam == quantizeAngle(angleCam)
    IN IF quantizedAngleCam \in DOMAIN buckets
       THEN [bestDist |-> buckets[quantizedAngleCam], minDiff |-> 0]
       ELSE findClosestLidarPoint(buckets, angleCam)

\* the acceptance test that lets every detection through
Matches_always(m) == TRUE

\* if (minDiff <= MAX_ANGLE_DIFF && bestDist > 0)
Matches(m) == m.minDiff <= MAX_ANGLE_DIFF * AngleUnit /\ m.bestDist > 0

\* a lookup whose numeric default is one instead of zero
Get_defaultOne(det, field, dflt) ==
    IF field \in DOMAIN det THEN det[field]
    ELSE IF field = "label" THEN dflt ELSE 1

\* det.get(field, default)
Get(det, field, dflt) == IF field \in DOMAIN det THEN det[field] ELSE dflt

\* an id built from the angle rounded to the nearest integer
ObjId_rounded(label, angleCam) == <<label, Round(angleCam, AngleUnit)>>

\* string objId = label + "_" + to_string(static_cast<int>(angleCam))
ObjId(label, angleCam) == <<label, TruncInt(angleCam, AngleUnit)>>

\* an update that averages the confidence with the one already stored
Upsert_merge(objs, id, obj) ==
    IF id \in DOMAIN objs
    THEN Put(objs, id, [obj EXCEPT !.confidence =
                                      (objs[id].confidence + obj.confidence) \div 2])
    ELSE Put(objs, id, obj)

\* DetectedObject& obj = g_objects[objId], then every field is assigned
Upsert(objs, id, obj) == Put(objs, id, obj)

\* the nearest-point search of the earlier variant: a scan of the whole map in
\* key order that keeps the first bucket of the smallest angular difference
NaiveLookup(points, angleCam) ==
    IF DOMAIN points = {}
    THEN [bestDist |-> -1 * DistUnit, minDiff |-> 9999 * AngleUnit]
    ELSE LET diff(b) == Abs(angleCam - b * AngleUnit)
             least == SetMin({diff(b) : b \in DOMAIN points})
             first == SetMin({b \in DOMAIN points : diff(b) = least})
         IN [bestDist |-> points[first], minDiff |-> least]

\* the loop over detArray; st = [objs, new_detections]
RECURSIVE CorrelateFrom(_, _, _, _, _)
CorrelateFrom(buckets, detArray, i, current_time, st) ==
    IF i > Len(detArray) THEN st
    ELSE LET det == detArray[i]
             angleCam == Get(det, "angle_deg", 0)
             label == Get(det, "label", "")
             confidence == Get(det, "confidence", 0)
             area == Get(det, "area", 0)
             m == Lookup(buckets, angleCam)
             nxt == IF Matches(m)
                    THEN [objs |-> Upsert(st.objs, ObjId(label, angleCam),
                                          [label |-> label,
                                           confidence |-> confidence,
                                           angle_deg |-> angleCam,
                                           distance_mm |-> m.bestDist,
                                           area |-> area,
                                           last_update_ms |-> current_time]),
                          new_detections |-> TRUE]
                    ELSE st
         IN CorrelateFrom(buckets, detArray, i + 1, current_time, nxt)

Correlate(buckets, detArray, current_time, objs) ==
    CorrelateFrom(buckets, detArray, 1, current_time,
                  [objs |-> objs, new_detections |-> FALSE])

(***************************************************************************)
(* Inputs                                                                  *)
(***************************************************************************)
Sample(q, d) == [angle_z_q14 |-> q, dist_mm_q2 |-> d]

\* scans the device returns in the loop: no sample; one sample straight
\* ahead at 1000mm; two samples of 500mm and 300mm in bucket 10; one rear
\* sample and one sample closer than MIN_DISTANCE_MM
ScanSet ==
    { <<>>,
      <<Sample(0, 4000)>>,
      <<Sample(15929, 2000), Sample(15930, 1200)>>,
      <<Sample(8192, 4000), Sample(0, 396)>> }

Det(l, a, c, s) == [label |-> l, angle_deg |-> a, confidence |-> c, area |-> s]

\* camera detections: car at 12.4 and at 12.6 degrees, x at 1.0 degree
DetSet ==
    { Det("car", 126976, 80, 40),
      Det("car", 129024, 70, 60),
      Det("x", 10240, 90, 50) }

\* the batches the camera sends in the loop: an empty one, each detection
\* alone, two detections of one slot, two detections of different slots
BatchSet ==
    {<<>>}
    \cup {<<d>> : d \in DetSet}
    \cup { <<Det("car", 126976, 80, 40), Det("car", 129024, 70, 60)>>,
           <<Det("x", 10240, 90, 50), Det("car", 126976, 80, 40)>> }

RECURSIVE SeqsUpTo(_, _)
SeqsUpTo(S, n) ==
    IF n = 0 THEN {<<>>}
    ELSE LET shorter == SeqsUpTo(S, n - 1)
         IN shorter \cup {Append(q, x) : q \in shorter, x \in S}

\* nothing pending on the subscriber
NoInbound == [kind |-> "none"]

\* what one poll of the subscriber yields: nothing, a message that does not
\* parse, a message without a detections array, or a batch
InboundSet ==
    {NoInbound, [kind |-> "garbage"], [kind |-> "nodetections"]}
    \cup {[kind |-> "batch", detections |-> b] : b \in BatchSet}

(***************************************************************************)
(* State                                                                   *)
(***************************************************************************)
VARIABLES
    pc,                      \* position of main
    now,                     \* the system clock, in ms
    g_running,
    g_publish_lidar_data,
    g_ptr,                   \* the global handles that are non-null
    res,                     \* life cycle of each resource behind a handle
    consecutive_failures,
    nodes,                   \* the scan grabbed in this iteration
    downsampledPoints,
    g_angle_buckets,
    g_objects,
    g_last_obj_publish_time,
    new_detections,          \* the flag of the batch consumed by the last step
    objOut,                  \* message the last step handed to the objects channel
    profOut,                 \* message the last step handed to the profile channel
    exitCode,                \* return value of main, set when pc = "done"
    exitReason,              \* why main left the loop or returned
    grabHist,                \* grab outcomes since the last successful one
    variant,                 \* which source variant's sampler is applied
    inbound,                 \* what the poll of the last step received
    replaced,                \* last_update_ms of the entries the last step overwrote
    released,                \* the handles deleted so far, in order
    arrived,                 \* batches that reached the subscriber before the last poll
    received,                \* messages that the recv of the last step returned
    rawIn,                   \* argument of convertRawAngleToDegrees
    angleOut                 \* its result

vars == <<pc, now, g_running, g_publish_lidar_data, g_ptr, res,
          consecutive_failures, nodes, downsampledPoints, g_angle_buckets,
          g_objects, g_last_obj_publish_time, new_detections, objOut, profOut,
          exitCode, exitReason, grabHist, variant, inbound, replaced,
          released, arrived, received, rawIn, angleOut>>

Handles == {"g_context", "g_publisher", "g_corr_publisher", "g_subscriber",
            "g_channel", "g_drv"}

LoopPcs == {"loop", "grab", "poll", "clean", "heartbeat"}

\* the order in which cleanup() tests and deletes the global handles
CleanupOrder == <<"g_drv", "g_channel", "g_publisher", "g_subscriber",
                  "g_corr_publisher", "g_context">>

\* the handles of hs in the order in which the source deletes them
InOrder(hs) ==
    LET Held(h) == h \in hs
    IN SelectSeq(CleanupOrder, Held)

\* cleanup() that leaves the handles it has deleted non-null
Nulled_dangling(ptrs, hs) == ptrs

\* g_x = nullptr after each delete of cleanup()
Nulled(ptrs, hs) == ptrs \ hs

\* cleanup(): the deletes it performs when exactly the handles of ptrs are
\* non-null, and the handles that are non-null afterwards
cleanup(ptrs) ==
    [deleted |-> InOrder(ptrs), ptrs |-> Nulled(ptrs, ptrs)]

Init ==
    /\ pc = "zmq_init"
    /\ now = StartTime
    /\ g_running = TRUE
    /\ g_publish_lidar_data \in BOOLEAN
    /\ g_ptr = {}
    /\ res = [h \in Handles |-> "none"]
    /\ consecutive_failures = 0
    /\ nodes = <<>>
    /\ downsampledPoints = NoPoints
    /\ g_angle_buckets = NoPoints
    /\ g_objects = NoObjects
    /\ g_last_obj_publish_time = 0
    /\ new_detections = FALSE
    /\ objOut = NoMsg
    /\ profOut = NoMsg
    /\ exitCode = 0
    /\ exitReason = "none"
    /\ grabHist = <<>>
    /\ variant = "refined"
    /\ inbound = NoInbound
    /\ replaced = NoObjects
    /\ released = <<>>
    /\ arrived = 0
    /\ received = 0
    /\ rawIn = 0
    /\ angleOut = 0

(***************************************************************************)
(* Helpers of the actions                                                  *)
(***************************************************************************)
loopState == <<consecutive_failures, nodes, downsampledPoints, g_angle_buckets,
               g_objects, g_last_obj_publish_time, grabHist>>
flags == <<g_running, g_publish_lidar_data, variant, rawIn, angleOut>>

Quiet ==
    /\ new_detections' = FALSE
    /\ objOut' = NoMsg
    /\ profOut' = NoMsg
    /\ inbound' = NoInbound
    /\ replaced' = NoObjects
    /\ arrived' = 0
    /\ received' = 0

\* operator new on the resource behind handle h
Acquire(r, hs) == [h \in Handles |-> IF h \in hs THEN "live" ELSE r[h]]

\* delete of the resource behind each handle of hs
Release(r, hs) ==
    [h \in Handles |-> IF h \in hs
                       THEN (IF r[h] = "live" THEN "freed" ELSE "double")
                       ELSE r[h]]

\* return -1 out of INIT after deleting the resources of hs
InitFail(hs) ==
    /\ pc' = "done"
    /\ exitCode' = -1
    /\ exitReason' = "init"
    /\ res' = Release(res, hs)
    /\ released' = released \o InOrder(hs)
    /\ UNCHANGED <<now, g_ptr, loopState, flags>>
    /\ Quiet

InitNext(p) ==
    /\ pc' = p
    /\ UNCHANGED <<exitCode, exitReason, loopState, flags, released>>
    /\ Quiet

\* the grab outcomes since the last successful grab, that one included
Remember(h, outcome) ==
    IF outcome = "ok" THEN <<"ok">> ELSE Append(h, outcome)

\* whether send throws matters only when there is something to send
SendOutcomes(objs) == IF DOMAIN objs = {} THEN {TRUE} ELSE BOOLEAN

(***************************************************************************)
(* Signals                                                                 *)
(***************************************************************************)
toggleLidarPublishing ==
    /\ pc # "done"
    /\ g_publish_lidar_data' = ~g_publish_lidar_data
    /\ UNCHANGED <<pc, now, g_running, variant, g_ptr, res, loopState,
                   new_detections, objOut, profOut, exitCode, exitReason,
                   inbound, replaced, released, arrived, received, rawIn,
                   angleOut>>

\* SIGINT or SIGTERM
signalHandler ==
    /\ pc # "done"
    /\ g_running
    /\ g_running' = FALSE
    /\ UNCHANGED <<pc, now, g_publish_lidar_data, variant, g_ptr, res, loopState,
                   new_detections, objOut, profOut, exitCode, exitReason,
                   inbound, replaced, released, arrived, received, rawIn,
                   angleOut>>

(***************************************************************************)
(* INIT                                                                    *)
(***************************************************************************)
ZmqOrder == <<"g_context", "g_publisher", "g_corr_publisher", "g_subscriber">>

\* the try block; on a throw, made is the number of handles already created
ZmqInit ==
    /\ pc = "zmq_init"
    /\ \/ /\ g_ptr' = Range(ZmqOrder)
          /\ res' = Acquire(res, Range(ZmqOrder))
          /\ UNCHANGED now
          /\ InitNext("channel")
       \/ \E made \in 0..4 :
            LET hs == {ZmqOrder[i] : i \in 1..made}
            IN /\ g_ptr' = hs
               /\ res' = Acquire(res, hs)
               /\ pc' = "done"
               /\ exitCode' = -1
               /\ exitReason' = "init"
               /\ UNCHANGED <<now, loopState, flags, released>>
               /\ Quiet

CreateChannel ==
    /\ pc = "channel"
    /\ \/ /\ g_ptr' = g_ptr \cup {"g_channel"}
          /\ res' = Acquire(res, {"g_channel"})
          /\ UNCHANGED now
          /\ InitNext("driver")
       \/ InitFail({})

CreateDriver ==
    /\ pc = "driver"
    /\ \/ /\ g_ptr' = g_ptr \cup {"g_drv"}
          /\ res' = Acquire(res, {"g_drv"})
          /\ UNCHANGED now
          /\ InitNext("connect")
       \/ InitFail({"g_channel"})

Connect ==
    /\ pc = "connect"
    /\ \/ /\ UNCHANGED <<now, g_ptr, res>>
          /\ InitNext("devinfo")
       \/ InitFail({"g_drv", "g_channel"})

GetDeviceInfo ==
    /\ pc = "devinfo"
    /\ \/ /\ UNCHANGED <<now, g_ptr, res>>
          /\ InitNext("health")
       \/ InitFail({"g_drv", "g_channel"})

\* getHealth fails, or succeeds with a status that is OK or not
CheckHealth ==
    /\ pc = "health"
    /\ \E outcome \in {"fail", "not_ok", "ok"} :
         IF outcome = "ok"
         THEN /\ UNCHANGED <<now, g_ptr, res>>
              /\ InitNext("motor")
         ELSE InitFail({"g_drv", "g_channel"})

\* stop(), sleep, setMotorSpeed(0), sleep
SetMotorSpeed ==
    /\ pc = "motor"
    /\ \/ /\ now' = now + 2 * INIT_DELAY_MS
          /\ UNCHANGED <<g_ptr, res>>
          /\ InitNext("health2")
       \/ /\ pc' = "done"
          /\ exitCode' = -1
          /\ exitReason' = "init"
          /\ now' = now + INIT_DELAY_MS
          /\ res' = Release(res, {"g_drv", "g_channel"})
          /\ released' = released \o InOrder({"g_drv", "g_channel"})
          /\ UNCHANGED <<g_ptr, loopState, flags>>
          /\ Quiet

RecheckHealth ==
    /\ pc = "health2"
    /\ \/ /\ UNCHANGED <<now, g_ptr, res>>
          /\ InitNext("start_scan")
       \/ InitFail({"g_drv", "g_channel"})

\* startScan(0, 1), sleep
StartScan ==
    /\ pc = "start_scan"
    /\ \/ /\ now' = now + INIT_DELAY_MS
          /\ UNCHANGED <<g_ptr, res>>
          /\ InitNext("loop")
       \/ InitFail({"g_drv", "g_channel"})

(***************************************************************************)
(* The acquisition loop                                                    *)
(***************************************************************************)
\* a clock that runs backwards while the program waits
Advance_backwards(clock, d) == clock - d

\* the clock after a blocking call or a sleep of d ms
Advance(clock, d) == clock + d

\* an empty scan that is processed like any other
SkipEmptyScan_never(count) == FALSE

\* if (count == 0) continue
SkipEmptyScan(count) == count = 0

\* consecutive_failures++
AfterFailure(cf) == cf + 1

\* a successful scan that leaves the counter alone
AfterSuccess_keep(cf) == cf

\* consecutive_failures = 0 on a successful scan
AfterSuccess(cf) == 0

TooManyFailures(cf) == cf >= MAX_CONSECUTIVE_FAILURES

\* a loop that does not look at the run flag
LoopCondition_ignoreStop(running) == TRUE

\* while (g_running)
LoopCondition(running) == running

LoopTest ==
    /\ pc = "loop"
    /\ IF LoopCondition(g_running)
       THEN pc' = "grab" /\ UNCHANGED exitReason
       ELSE pc' = "cleanup" /\ exitReason' = "signal"
    /\ UNCHANGED <<now, g_ptr, res, loopState, flags, exitCode, released>>
    /\ Quiet

\* grabScanDataHq fails after d ms: count the failure, then give up or
\* stop, sleep, restart the scan, sleep and continue
GrabFail ==
    /\ pc = "grab"
    /\ \E d \in Ticks, restartOk \in BOOLEAN :
         LET cf == AfterFailure(consecutive_failures)
         IN /\ consecutive_failures' = cf
            /\ grabHist' = Remember(grabHist, "fail")
            /\ IF TooManyFailures(cf)
               THEN /\ now' = Advance(now, d)
                    /\ pc' = "cleanup"
                    /\ exitReason' = "threshold"
               ELSE IF restartOk
               THEN /\ now' = Advance(now, d + 2 * SCAN_DELAY_MS)
                    /\ pc' = "loop"
                    /\ UNCHANGED exitReason
               ELSE /\ now' = Advance(now, d + SCAN_DELAY_MS)
                    /\ pc' = "cleanup"
                    /\ exitReason' = "restart_failed"
            /\ now' <= MaxTime
    /\ UNCHANGED <<g_ptr, res, nodes, downsampledPoints, g_angle_buckets,
                   g_objects, g_last_obj_publish_time, flags, exitCode, released>>
    /\ Quiet

\* a profile message that is sent whatever the toggle says
ProfileMsg_always(points, enabled, sendOk) ==
    IF DOMAIN points # {}
    THEN [type |-> "LIDAR_DATA", points |-> points, delivered |-> sendOk]
    ELSE NoMsg

\* the LIDAR_DATA message of one cycle
ProfileMsg(points, enabled, sendOk) ==
    IF DOMAIN points # {} /\ enabled
    THEN [type |-> "LIDAR_DATA", points |-> points, delivered |-> sendOk]
    ELSE NoMsg

\* grabScanDataHq succeeds after d ms with scan: reset the counter, and
\* unless the scan is empty rebuild the profile and publish it
GrabOk ==
    /\ pc = "grab"
    /\ \E d \in Ticks, scan \in ScanSet, sendOk \in BOOLEAN :
         /\ now' = Advance(now, d)
         /\ now' <= MaxTime
         /\ consecutive_failures' = AfterSuccess(consecutive_failures)
         /\ grabHist' = Remember(grabHist, "ok")
         /\ nodes' = scan
         /\ IF SkipEmptyScan(Len(scan))
            THEN /\ pc' = "loop"
                 /\ UNCHANGED <<downsampledPoints, g_angle_buckets>>
                 /\ profOut' = NoMsg
            ELSE LET r == ReduceScan(variant, scan)
                 IN /\ pc' = "poll"
                    /\ downsampledPoints' = r.points
                    /\ g_angle_buckets' = r.buckets
                    /\ profOut' = ProfileMsg(r.points, g_publish_lidar_data, sendOk)
    /\ new_detections' = FALSE
    /\ objOut' = NoMsg
    /\ inbound' = NoInbound
    /\ replaced' = NoObjects
    /\ arrived' = 0
    /\ received' = 0
    /\ UNCHANGED <<g_ptr, res, g_objects, g_last_obj_publish_time, flags,
                   exitCode, exitReason, released>>

\* uint64_t current_time = getCurrentTimeMs() at the head of a batch
BatchTime(clock) == clock

\* what the loop does with the message in that the poll yielded: parse it,
\* correlate the batch, publish on new detections
Poll(in) ==
    /\ inbound' = in
    /\ IF in.kind = "batch"
       THEN LET c == Correlate(g_angle_buckets, in.detections, BatchTime(now),
                               g_objects)
            IN /\ g_objects' = c.objs
               /\ new_detections' = c.new_detections
               /\ IF c.new_detections
                  THEN \E sendOk \in SendOutcomes(c.objs) :
                         LET p == publishObjects(TRUE, now, g_last_obj_publish_time,
                                                 c.objs, sendOk)
                         IN /\ g_last_obj_publish_time' = p.last
                            /\ objOut' = p.msg
                  ELSE /\ UNCHANGED g_last_obj_publish_time
                       /\ objOut' = NoMsg
       ELSE /\ UNCHANGED <<g_objects, g_last_obj_publish_time>>
            /\ new_detections' = FALSE
            /\ objOut' = NoMsg
    /\ replaced' = [k \in {j \in DOMAIN g_objects :
                                g_objects'[j] # g_objects[j]} |->
                       g_objects[k].last_update_ms]
    /\ profOut' = NoMsg
    /\ UNCHANGED <<now, g_ptr, res, consecutive_failures, nodes, downsampledPoints,
                   g_angle_buckets, grabHist, flags, exitCode, exitReason,
                   released>>

\* a loop that calls recv once for every batch that arrived
Received_drain(n) == n

\* the messages that the one recv of an iteration returns when n batches
\* reached the subscriber, which keeps the latest only (ZMQ_CONFLATE)
Received(n) == IF n > 0 THEN 1 ELSE 0

\* zmq::poll, recv and the handling of what was received: n batches arrived
\* since the previous poll and in is the latest of them
PollDetections ==
    /\ pc = "poll"
    /\ \E n \in 0..MaxArrivals, in \in InboundSet :
         /\ (n = 0) <=> (in = NoInbound)
         /\ arrived' = n
         /\ received' = Received(n)
         /\ Poll(in)
    /\ pc' = "clean"

\* cleanOldObjects()
CleanOld ==
    /\ pc = "clean"
    /\ g_objects' = cleanOldObjects(g_objects, now)
    /\ pc' = "heartbeat"
    /\ UNCHANGED <<now, g_ptr, res, consecutive_failures, nodes, downsampledPoints,
                   g_angle_buckets, g_last_obj_publish_time, grabHist, flags,
                   exitCode, exitReason, released>>
    /\ Quiet

\* the timed publish at the end of the iteration
Heartbeat ==
    /\ pc = "heartbeat"
    /\ IF now - g_last_obj_publish_time >= FORCE_PUBLISH_MS
       THEN \E sendOk \in SendOutcomes(g_objects) :
              LET p == publishObjects(TRUE, now, g_last_obj_publish_time,
                                      g_objects, sendOk)
              IN /\ g_last_obj_publish_time' = p.last
                 /\ objOut' = p.msg
       ELSE /\ UNCHANGED g_last_obj_publish_time
            /\ objOut' = NoMsg
    /\ pc' = "loop"
    /\ new_detections' = FALSE
    /\ profOut' = NoMsg
    /\ inbound' = NoInbound
    /\ replaced' = NoObjects
    /\ arrived' = 0
    /\ received' = 0
    /\ UNCHANGED <<now, g_ptr, res, consecutive_failures, nodes, downsampledPoints,
                   g_angle_buckets, g_objects, grabHist, flags, exitCode,
                   exitReason, released>>

\* cleanup(); return 0
Cleanup ==
    /\ pc = "cleanup"
    /\ LET c == cleanup(g_ptr)
       IN /\ res' = Release(res, Range(c.deleted))
          /\ released' = released \o c.deleted
          /\ g_ptr' = c.ptrs
    /\ pc' = "done"
    /\ exitCode' = 0
    /\ UNCHANGED <<now, loopState, flags, exitReason>>
    /\ Quiet

\* the steps of main, as opposed to the signals
MainNext ==
    \/ ZmqInit
    \/ CreateChannel
    \/ CreateDriver
    \/ Connect
    \/ GetDeviceInfo
    \/ CheckHealth
    \/ SetMotorSpeed
    \/ RecheckHealth
    \/ StartScan
    \/ LoopTest
    \/ GrabFail
    \/ GrabOk
    \/ PollDetections
    \/ CleanOld
    \/ Heartbeat
    \/ Cleanup

Next ==
    \/ toggleLidarPublishing
    \/ signalHandler
    \/ ZmqInit
    \/ CreateChannel
    \/ CreateDriver
    \/ Connect
    \/ GetDeviceInfo
    \/ CheckHealth
    \/ SetMotorSpeed
    \/ RecheckHealth
    \/ StartScan
    \/ LoopTest
    \/ GrabFail
    \/ GrabOk
    \/ PollDetections
    \/ CleanOld
    \/ Heartbeat
    \/ Cleanup

Spec == Init /\ [][Next]_vars

\* main is scheduled: a step of main that stays possible is taken
SpecFair == Spec /\ WF_vars(MainNext)

(***************************************************************************)
(* Unit harness: the sampler and publishObjects applied to drawn inputs    *)
(***************************************************************************)
\* samples at 0, 10 (twice), -90, +90, just behind -90, 180, -22.5, 0 (after
\* one full turn), just behind +90 and 22.5 degrees, with distances at and
\* around the limits
UnitSamples ==
    { Sample(0, 4000), Sample(15929, 2000), Sample(15930, 1200),
      Sample(4096, 400), Sample(12288, 12000), Sample(4097, 4000),
      Sample(8192, 4000), Sample(1024, 800), Sample(0, 396),
      Sample(16384, 12004), Sample(12287, 4000), Sample(15360, 4000) }

\* one sample per degree of a full turn, all at 1000mm
Sweep == [k \in 1..360 |-> Sample(Round(k * Q14, 360), 4000)]

UnitScans == SeqsUpTo(UnitSamples, MaxScanLen) \cup {Sweep}

UnitObject(det, dist, t) ==
    [label |-> det.label, confidence |-> det.confidence,
     angle_deg |-> det.angle_deg, distance_mm |-> dist, area |-> det.area,
     last_update_ms |-> t]

\* caches of zero, one or two objects, updated at t
UnitCaches(t) ==
    LET car == Det("car", 126976, 80, 40)
        x == Det("x", 10240, 90, 50)
        one == Put(NoObjects, ObjId(car.label, car.angle_deg),
                   UnitObject(car, 1200, t))
    IN {NoObjects, one,
        Put(one, ObjId(x.label, x.angle_deg), UnitObject(x, 4000, t))}

\* profiles for the correlator: one point in bucket 10 (500mm), one in
\* bucket 20 (800mm), points in buckets 0 and 5 with the closer one in either,
\* points in buckets 5 and 15 with the closer one in either, one in bucket -5,
\* and a scan of which no sample is accepted
UnitPollScans ==
    { <<Sample(15929, 2000)>>,
      <<Sample(15474, 3200)>>,
      <<Sample(0, 4000), Sample(16156, 2400)>>,
      <<Sample(0, 2400), Sample(16156, 4000)>>,
      <<Sample(16156, 2400), Sample(15701, 4000)>>,
      <<Sample(16156, 4000), Sample(15701, 2400)>>,
      <<Sample(228, 4000)>>,
      <<Sample(8192, 4000)>> }

\* detections at 2.5, 10.0, 30.0, 11.0, 12.4, 12.6, -0.6 and 0.6 degrees, and
\* two detections with fields missing
UnitDets ==
    { Det("car", 25600, 80, 40),
      Det("car", 102400, 80, 40),
      Det("car", 307200, 80, 40),
      Det("car", 112640, 60, 30),
      Det("car", 126976, 80, 40),
      Det("car", 129024, 70, 60),
      Det("x", -6144, 90, 50),
      Det("x", 6144, 50, 20),
      [confidence |-> 55],
      [label |-> "car", angle_deg |-> 102400] }

\* what the subscriber can hold: nothing, text that is not JSON, an object
\* without a detections member or with one that is not an array, or a batch
UnitInboundSet ==
    {NoInbound, [kind |-> "garbage"], [kind |-> "nodetections"],
     [kind |-> "notarray"]}
    \cup {[kind |-> "batch", detections |-> b] : b \in SeqsUpTo(UnitDets, MaxBatch)}

\* raw angles of whole degrees over MaxTurns turns in either direction
UnitRawAngles == {d * AngleUnit : d \in -(360 * MaxTurns)..(360 * MaxTurns)}

\* the handles that are non-null after each stage of INIT
UnitHandleSets ==
    LET order == ZmqOrder \o <<"g_channel", "g_drv">>
    IN {{order[i] : i \in 1..n} : n \in 0..Len(order)}

UnitDefaults ==
    /\ g_running = TRUE
    /\ g_publish_lidar_data = TRUE
    /\ consecutive_failures = 0
    /\ new_detections = FALSE
    /\ objOut = NoMsg
    /\ profOut = NoMsg
    /\ exitCode = 0
    /\ exitReason = "none"
    /\ grabHist = <<"ok">>
    /\ inbound = NoInbound
    /\ replaced = NoObjects
    /\ released = <<>>
    /\ arrived = 0
    /\ received = 0
    /\ angleOut = 0

UnitInit ==
    /\ UnitDefaults
    /\ \/ /\ pc = "unit"
          /\ nodes \in UnitScans
          /\ variant \in {"refined", "early"}
          /\ now = LoopStart
          /\ g_objects = NoObjects
          /\ g_last_obj_publish_time = 0
          /\ g_ptr = Handles
          /\ rawIn = 0
       \/ /\ pc = "unit"
          /\ nodes = <<>>
          /\ variant = "refined"
          /\ now \in {LoopStart + i * FORCE_PUBLISH_MS : i \in 1..Horizon}
          /\ g_objects \in UnitCaches(LoopStart)
          /\ g_last_obj_publish_time \in {0, LoopStart, now}
          /\ g_ptr = Handles
          /\ rawIn = 0
       \/ /\ pc = "unit_poll"
          /\ nodes \in UnitPollScans
          /\ variant = "refined"
          /\ now = LoopStart + FORCE_PUBLISH_MS
          /\ g_objects \in UnitCaches(LoopStart)
          /\ g_last_obj_publish_time = LoopStart
          /\ g_ptr = Handles
          /\ rawIn = 0
       \/ /\ pc = "unit_cleanup"
          /\ nodes = <<>>
          /\ variant = "refined"
          /\ now = LoopStart
          /\ g_objects \in UnitCaches(LoopStart)
          /\ g_last_obj_publish_time = LoopStart
          /\ g_ptr \in UnitHandleSets
          /\ rawIn = 0
       \/ /\ pc = "unit_angle"
          /\ nodes = <<>>
          /\ variant = "refined"
          /\ now = LoopStart
          /\ g_objects = NoObjects
          /\ g_last_obj_publish_time = 0
          /\ g_ptr = Handles
          /\ rawIn \in UnitRawAngles
    /\ res = [h \in Handles |-> IF h \in g_ptr THEN "live" ELSE "none"]
    /\ LET r == ReduceScan(variant, nodes)
       IN IF pc = "unit_poll"
          THEN /\ downsampledPoints = r.points
               /\ g_angle_buckets = r.buckets
          ELSE /\ downsampledPoints = NoPoints
               /\ g_angle_buckets = NoPoints

\* the reduction of one scan by the sampler of the drawn variant
UnitReduce ==
    /\ pc = "unit"
    /\ Len(nodes) > 0
    /\ LET r == ReduceScan(variant, nodes)
       IN /\ downsampledPoints' = r.points
          /\ g_angle_buckets' = r.buckets
    /\ pc' = "reduced"
    /\ UNCHANGED <<now, g_ptr, res, consecutive_failures, nodes, g_objects,
                   g_last_obj_publish_time, grabHist, flags, exitCode,
                   exitReason, new_detections, objOut, profOut, inbound, replaced,
                   released, arrived, received>>

\* one call of publishObjects, forced or not
UnitPublish ==
    /\ pc = "unit"
    /\ Len(nodes) = 0
    /\ \E force \in BOOLEAN, sendOk \in SendOutcomes(g_objects) :
         LET p == publishObjects(force, now, g_last_obj_publish_time,
                                 g_objects, sendOk)
         IN /\ g_last_obj_publish_time' = p.last
            /\ objOut' = p.msg
    /\ pc' = "published"
    /\ UNCHANGED <<now, g_ptr, res, consecutive_failures, nodes, downsampledPoints,
                   g_angle_buckets, g_objects, grabHist, flags, exitCode,
                   exitReason, new_detections, profOut, inbound, replaced,
                   released, arrived, received>>

\* the poll stage of one cycle on a drawn profile, cache and message
UnitPoll ==
    /\ pc = "unit_poll"
    /\ \E in \in UnitInboundSet :
         LET n == IF in = NoInbound THEN 0 ELSE 1
         IN /\ arrived' = n
            /\ received' = Received(n)
            /\ Poll(in)
    /\ pc' = "polled"

\* one call of convertRawAngleToDegrees
UnitConvert ==
    /\ pc = "unit_angle"
    /\ angleOut' = convertRawAngleToDegrees(rawIn)
    /\ pc' = "converted"
    /\ UNCHANGED <<now, g_ptr, res, loopState, g_running, g_publish_lidar_data,
                   variant, rawIn, exitCode, exitReason, released>>
    /\ Quiet

\* cleanup(), called once and then once more
UnitCleanup ==
    /\ pc \in {"unit_cleanup", "cleaned"}
    /\ LET c == cleanup(g_ptr)
       IN /\ res' = Release(res, Range(c.deleted))
          /\ released' = released \o c.deleted
          /\ g_ptr' = c.ptrs
    /\ pc' = IF pc = "unit_cleanup" THEN "cleaned" ELSE "cleaned_again"
    /\ UNCHANGED <<now, loopState, flags, exitCode, exitReason>>
    /\ Quiet

UnitNext == UnitReduce \/ UnitPublish \/ UnitPoll \/ UnitCleanup \/ UnitConvert

SpecUnit == UnitInit /\ [][UnitNext]_vars

(***************************************************************************)
(* Properties of the acquisition loop                                      *)
(***************************************************************************)
FailsIn(h) == Cardinality({i \in DOMAIN h : h[i] = "fail"})

\* C1: the consecutive-failure counter equals the number of failed grabs
\* since the last successful one, and the loop is left through the threshold
\* exactly when that number has reached MAX_CONSECUTIVE_FAILURES (= 3); a
\* success in between resets the count, so fewer than three failures in a row
\* never end the loop through the threshold.
C1_FailureCounter ==
    /\ consecutive_failures = FailsIn(grabHist)
    /\ exitReason = "threshold" <=> FailsIn(grabHist) >= MAX_CONSECUTIVE_FAILURES
    /\ FailsIn(grabHist) >= MAX_CONSECUTIVE_FAILURES => pc \in {"cleanup", "done"}
    /\ FailsIn(grabHist) <= MAX_CONSECUTIVE_FAILURES

\* the loop has been abandoned on the third failure in a row
C1_Witness ==
    /\ exitReason = "threshold"
    /\ grabHist = <<"ok", "fail", "fail", "fail">>
    /\ consecutive_failures = MAX_CONSECUTIVE_FAILURES

\* C2: the exit code is 0 exactly when the loop ended because of the stop
\* signal, and non-zero after an INIT failure and after the loop was
\* abandoned on acquisition failures.
C2_ExitCode ==
    pc = "done" => (exitCode = 0 <=> exitReason = "signal")

\* C3: an objects-out message sent at time t contains a tracked object last
\* updated at u if t - u <= MAX_OBJECT_AGE_MS and does not contain it if
\* t - u > MAX_OBJECT_AGE_MS.
C3_Expiry ==
    objOut.type = "OBJECTS" =>
        \A k \in DOMAIN g_objects :
            LET age == objOut.timestamp - g_objects[k].last_update_ms
            IN /\ age <= MAX_OBJECT_AGE_MS => k \in DOMAIN objOut.objects
               /\ age > MAX_OBJECT_AGE_MS => k \notin DOMAIN objOut.objects

\* C4: cleanOldObjects at time now removes exactly the entries older than
\* MAX_OBJECT_AGE_MS, keeps every other entry unchanged and adds none.
C4_EvictExactly ==
    [][(pc = "clean" /\ pc' = "heartbeat") =>
          /\ \A k \in DOMAIN g_objects :
                k \in DOMAIN g_objects' <=>
                    now - g_objects[k].last_update_ms <= MAX_OBJECT_AGE_MS
          /\ \A k \in DOMAIN g_objects' :
                k \in DOMAIN g_objects /\ g_objects'[k] = g_objects[k]]_vars

\* eviction has just run and kept an entry whose age is exactly the limit
C4_Witness ==
    /\ pc = "heartbeat"
    /\ \E k \in DOMAIN g_objects :
          now - g_objects[k].last_update_ms = MAX_OBJECT_AGE_MS

\* C5: while the loop runs with a non-empty cache, every window of
\* 2 * FORCE_PUBLISH_MS without a correlated detection contains an
\* objects-out message.
C5_Heartbeat ==
    (/\ pc \in LoopPcs
     /\ DOMAIN g_objects # {}
     /\ \A k \in DOMAIN g_objects :
           g_objects[k].last_update_ms <= now - 2 * FORCE_PUBLISH_MS)
    => g_last_obj_publish_time >= now - 2 * FORCE_PUBLISH_MS

\* the fields of a cache entry as an objects-out message carries them
Published(obj, t) ==
    [label |-> obj.label, confidence |-> obj.confidence,
     angle_deg |-> obj.angle_deg, distance_mm |-> obj.distance_mm,
     area |-> obj.area, timestamp |-> t]

\* C6: a cycle whose batch created or updated an object sends an objects-out
\* message right after the batch, and the message holds every entry of the
\* cache, also those the batch did not touch.
C6_ForcedFullSnapshot ==
    [][(pc = "poll" /\ pc' = "clean" /\ (new_detections' \/ g_objects' # g_objects)) =>
          /\ objOut'.type = "OBJECTS"
          /\ objOut'.timestamp = now'
          /\ DOMAIN objOut'.objects = DOMAIN g_objects'
          /\ \A k \in DOMAIN g_objects' :
                objOut'.objects[k] = Published(g_objects'[k], now')]_vars

\* a detection-triggered message that carries an entry of an earlier cycle
C6_Witness ==
    /\ pc = "clean"
    /\ new_detections
    /\ objOut.type = "OBJECTS"
    /\ \E k \in DOMAIN objOut.objects :
          g_objects[k].last_update_ms < objOut.timestamp

(***************************************************************************)
(* Properties of publishObjects and of the sampler on drawn inputs         *)
(***************************************************************************)
\* C7: publishObjects on an empty cache, forced or not, sends nothing and
\* leaves the publish timer and the cache unchanged.
C7_EmptyPublishNoOp ==
    [][(pc = "unit" /\ pc' = "published" /\ DOMAIN g_objects = {}) =>
          /\ objOut' = NoMsg
          /\ g_last_obj_publish_time' = g_last_obj_publish_time
          /\ g_objects' = g_objects]_vars

\* publishObjects has returned on an empty cache although the timer was due
C7_Witness ==
    /\ pc = "published"
    /\ DOMAIN g_objects = {}
    /\ now - g_last_obj_publish_time >= FORCE_PUBLISH_MS
    /\ objOut = NoMsg

\* bucket width of the sampler of a variant
Resolution(v) == IF v = "refined" THEN ANGLE_BUCKET_SIZE ELSE ANGLE_RESOLUTION

\* the device direction of a sample lies within 90 degrees of straight ahead
InFront(s) ==
    LET turn == s.angle_z_q14 % Q14
    IN turn <= Q14 \div 4 \/ turn >= 3 * (Q14 \div 4)

InRange(s) ==
    /\ s.dist_mm_q2 >= MIN_DISTANCE_MM * DistUnit
    /\ s.dist_mm_q2 <= MAX_DISTANCE_MM * DistUnit

\* C8: every bucket angle of the profile lies in [-90, 90], every distance in
\* [MIN_DISTANCE_MM, MAX_DISTANCE_MM], and every entry is the distance of a
\* sample of the scan that is in the front hemisphere and within the
\* distance limits.
C8_ProfileRange ==
    \A b \in DOMAIN downsampledPoints :
        /\ b >= -90 /\ b <= 90
        /\ downsampledPoints[b] >= MIN_DISTANCE_MM * DistUnit
        /\ downsampledPoints[b] <= MAX_DISTANCE_MM * DistUnit
        /\ pc = "reduced" =>
              \E i \in DOMAIN nodes :
                  /\ InFront(nodes[i]) /\ InRange(nodes[i])
                  /\ nodes[i].dist_mm_q2 = downsampledPoints[b]

\* a scan with a rear or out-of-range sample has been reduced to a profile
\* that is not empty
C8_Witness ==
    /\ pc = "reduced"
    /\ DOMAIN downsampledPoints # {}
    /\ \E i \in DOMAIN nodes : ~InFront(nodes[i]) \/ ~InRange(nodes[i])

\* the distances of the accepted samples of the scan that fall into bucket b
BucketDistances(b) ==
    {nodes[i].dist_mm_q2 :
        i \in {j \in DOMAIN nodes :
                 /\ InFront(nodes[j]) /\ InRange(nodes[j])
                 /\ Round(SampleAngle(nodes[j]), Resolution(variant) * AngleUnit)
                        * Resolution(variant) = b}}

\* C9: the profile holds, for every bucket, the minimum of the distances of
\* the accepted samples of that bucket (and no entry for a bucket without
\* one), whatever the order of the samples; the refined variant stores the
\* same values in g_angle_buckets.
C9_ClosestWins ==
    pc = "reduced" =>
        /\ \A b \in -90..90 :
              IF BucketDistances(b) = {}
              THEN b \notin DOMAIN downsampledPoints
              ELSE /\ b \in DOMAIN downsampledPoints
                   /\ downsampledPoints[b] = SetMin(BucketDistances(b))
        /\ variant = "refined" => g_angle_buckets = downsampledPoints

\* 500mm then 300mm in bucket 10 have been reduced to 300mm
C9_Witness ==
    /\ pc = "reduced"
    /\ variant = "refined"
    /\ nodes = <<Sample(15929, 2000), Sample(15930, 1200)>>
    /\ downsampledPoints[10] = 300 * DistUnit
    /\ g_angle_buckets[10] = 300 * DistUnit

\* C10 as stated: the profile has at most 181 / resolution entries.
C10_AtMost181OverResolution ==
    Cardinality(DOMAIN downsampledPoints) * Resolution(variant) <= 181

\* C10: the profile has at most 180 / resolution + 1 entries (37 for
\* ANGLE_BUCKET_SIZE = 5, 181 for ANGLE_RESOLUTION = 1), whatever the number
\* of samples of the scan.
C10_BucketBound ==
    Cardinality(DOMAIN downsampledPoints) <= 180 \div Resolution(variant) + 1

\* a full turn of samples has filled every bucket of the refined variant
C10_Witness ==
    /\ pc = "reduced"
    /\ variant = "refined"
    /\ Len(nodes) > 180 \div ANGLE_BUCKET_SIZE + 1
    /\ Cardinality(DOMAIN downsampledPoints) = 180 \div ANGLE_BUCKET_SIZE + 1

(***************************************************************************)
(* Properties of the correlator on drawn profiles, caches and messages     *)
(***************************************************************************)
\* the detections of a received message
Dets(in) == IF in.kind = "batch" THEN in.detections ELSE <<>>

DetAngle(det) == IF "angle_deg" \in DOMAIN det THEN det.angle_deg ELSE 0
DetLabel(det) == IF "label" \in DOMAIN det THEN det.label ELSE ""
DetConfidence(det) == IF "confidence" \in DOMAIN det THEN det.confidence ELSE 0
DetArea(det) == IF "area" \in DOMAIN det THEN det.area ELSE 0

\* the buckets of the index within one bucket width of the quantized angle
Consulted(buckets, angleCam) ==
    {b \in DOMAIN buckets :
        Abs(b - ANGLE_BUCKET_SIZE * Round(angleCam, ANGLE_BUCKET_SIZE * AngleUnit))
            <= ANGLE_BUCKET_SIZE}

\* the integer part of an angle: the integer next to it on the side of zero
IntPart(a) ==
    CHOOSE n \in {a \div AngleUnit, a \div AngleUnit + 1} :
        \/ a >= 0 /\ n * AngleUnit <= a /\ a < (n + 1) * AngleUnit
        \/ a < 0 /\ (n - 1) * AngleUnit < a /\ a <= n * AngleUnit

\* the slot of a detection: its label and the integer part of its angle
Slot(det) == <<DetLabel(det), IntPart(DetAngle(det))>>

\* the cache entries written at the current time
Touched == {k \in DOMAIN g_objects : g_objects[k].last_update_ms = now}

SetMax(S) == CHOOSE m \in S : \A x \in S : m >= x

\* C11: a detection creates or updates a cache entry only with the distance
\* of a bucket that lies within MAX_ANGLE_DIFF of its angle and is positive;
\* a batch of which no detection finds a bucket leaves the cache and the
\* publish timer unchanged and sends nothing, and a detection that finds one
\* is stored.
C11_MatchWithinTolerance ==
    [][(pc = "unit_poll" /\ pc' = "polled") =>
          LET dets == Dets(inbound')
              changed == {k \in DOMAIN g_objects' :
                             k \notin DOMAIN g_objects \/ g_objects'[k] # g_objects[k]}
          IN /\ \A k \in changed :
                   \E b \in DOMAIN g_angle_buckets :
                       /\ Abs(g_objects'[k].angle_deg - b * AngleUnit)
                              <= MAX_ANGLE_DIFF * AngleUnit
                       /\ g_angle_buckets[b] > 0
                       /\ g_objects'[k].distance_mm = g_angle_buckets[b]
             /\ (\A i \in DOMAIN dets :
                     Consulted(g_angle_buckets, DetAngle(dets[i])) = {})
                => /\ g_objects' = g_objects
                   /\ g_last_obj_publish_time' = g_last_obj_publish_time
                   /\ objOut' = NoMsg
                   /\ ~new_detections'
             /\ \A i \in DOMAIN dets :
                   Consulted(g_angle_buckets, DetAngle(dets[i])) # {}
                   => /\ Slot(dets[i]) \in DOMAIN g_objects'
                      /\ g_objects'[Slot(dets[i])].last_update_ms = now]_vars

\* against a profile whose only point is in bucket 10, the detection at 30.0
\* degrees was dropped and the one at 10.0 degrees was stored with 500mm
C11_Witness ==
    /\ pc = "polled"
    /\ DOMAIN g_angle_buckets = {10}
    /\ inbound = [kind |-> "batch",
                  detections |-> <<Det("car", 307200, 80, 40),
                                   Det("car", 102400, 80, 40)>>]
    /\ <<"car", 30>> \notin DOMAIN g_objects
    /\ <<"car", 10>> \in Touched
    /\ g_objects[<<"car", 10>>].distance_mm = 500 * DistUnit

\* the last detection of the batch that has the slot of detection i
LastOfSlot(dets, i) ==
    SetMax({j \in DOMAIN dets : Slot(dets[j]) = Slot(dets[i])})

\* C12: for every profile and every detection angle the lookup of the refined
\* variant accepts exactly the detections that the scan of all buckets for
\* the smallest angular difference accepts, and stores the same distance.
C12_SameAsNaive ==
    pc = "polled" =>
        LET dets == Dets(inbound)
        IN \A i \in DOMAIN dets :
              LET naive == NaiveLookup(g_angle_buckets, DetAngle(dets[i]))
                  last == NaiveLookup(g_angle_buckets,
                                      DetAngle(dets[LastOfSlot(dets, i)]))
              IN /\ Matches(naive) <=> Slot(dets[i]) \in Touched
                 /\ Matches(naive) =>
                       g_objects[Slot(dets[i])].distance_mm = last.bestDist

\* the detections of the batch that found a bucket
Found(dets) ==
    {i \in DOMAIN dets : Consulted(g_angle_buckets, DetAngle(dets[i])) # {}}

\* C13 as stated: the accepted detections of a batch occupy as many slots as
\* they have distinct pairs of label and angle rounded to the nearest integer.
C13_RoundedKey ==
    pc = "polled" =>
        LET dets == Dets(inbound)
        IN Cardinality(Touched) =
              Cardinality({<<DetLabel(dets[i]), Round(DetAngle(dets[i]), AngleUnit)>> :
                              i \in Found(dets)})

\* C13: the cache key of an accepted detection is its label and its angle
\* truncated toward zero: two accepted detections share one slot if and only
\* if they have the same label and the same integer part of the angle, for
\* positive and negative angles, and other detections occupy distinct slots.
C13_TruncatedKey ==
    pc = "polled" =>
        LET dets == Dets(inbound)
        IN Touched = {Slot(dets[i]) : i \in Found(dets)}

\* x at -0.6 and at 0.6 degrees were both accepted and share the slot x_0
C13_Witness ==
    /\ pc = "polled"
    /\ inbound = [kind |-> "batch",
                  detections |-> <<Det("x", -6144, 90, 50), Det("x", 6144, 50, 20)>>]
    /\ Found(inbound.detections) = {1, 2}
    /\ Touched = {<<"x", 0>>}

\* the cache entry a detection leaves when it is matched at time t
EntryOf(det, t) ==
    [label |-> DetLabel(det),
     confidence |-> DetConfidence(det),
     angle_deg |-> DetAngle(det),
     distance_mm |-> Lookup(g_angle_buckets, DetAngle(det)).bestDist,
     area |-> DetArea(det),
     last_update_ms |-> t]

\* C14: after a batch, every slot of an accepted detection holds exactly the
\* fields of the last accepted detection of that slot and the time of the
\* batch, every other entry is unchanged, and the cache has grown only by the
\* slots that were not in it.
C14_LastWriterWins ==
    [][(pc = "poll" /\ pc' = "clean") =>
          LET dets == Dets(inbound')
              slots == {Slot(dets[i]) : i \in Found(dets)}
          IN /\ DOMAIN g_objects' = DOMAIN g_objects \cup slots
             /\ \A k \in DOMAIN g_objects' \ slots : g_objects'[k] = g_objects[k]
             /\ \A i \in Found(dets) :
                   g_objects'[Slot(dets[i])] = EntryOf(dets[LastOfSlot(dets, i)], now)]_vars

\* car at 12.4 and then at 12.6 degrees in one batch, on a slot that an
\* earlier cycle had filled: the entry is the second detection's
C14_Witness ==
    /\ pc = "clean"
    /\ inbound = [kind |-> "batch",
                  detections |-> <<Det("car", 126976, 80, 40),
                                   Det("car", 129024, 70, 60)>>]
    /\ <<"car", 12>> \in DOMAIN replaced
    /\ replaced[<<"car", 12>>] < now
    /\ g_objects[<<"car", 12>>] =
          [label |-> "car", confidence |-> 70, angle_deg |-> 129024,
           distance_mm |-> 300 * DistUnit, area |-> 60, last_update_ms |-> now]

C16_FreshProfile ==
    [][/\ pc' = "poll" =>
             /\ pc \in {"grab", "poll"}
             /\ Len(nodes') > 0
             /\ grabHist' = <<"ok">>
             /\ g_angle_buckets' = ReduceScan(variant, nodes').buckets
             /\ g_angle_buckets' = downsampledPoints'
       /\ pc = "poll" => nodes' = nodes /\ g_angle_buckets' = g_angle_buckets
       /\ (inbound' # inbound /\ inbound' # NoInbound) => pc = "poll"
       /\ (g_objects' # g_objects /\ pc # "clean") => pc = "poll"]_vars

\* detections are about to be correlated against the profile of this cycle's
\* scan (bucket 0) while the cache holds an object matched in bucket 10 of an
\* earlier cycle's profile
C16_Witness ==
    /\ pc = "poll"
    /\ nodes = <<Sample(0, 4000)>>
    /\ DOMAIN g_angle_buckets = {0}
    /\ \E k \in DOMAIN g_objects : g_objects[k].distance_mm = 300 * DistUnit

Device == {"g_drv", "g_channel"}

\* C17: a call of cleanup deletes exactly the handles that are non-null, each
\* once, the driver before the serial channel, both before the sockets and
\* the context last, and leaves every handle null; a second call deletes
\* nothing.
C17_CleanupOrderIdempotent ==
    [][(pc \in {"unit_cleanup", "cleaned"} /\ pc' # pc) =>
          /\ g_ptr' = {}
          /\ Range(released') = Range(released) \cup g_ptr
          /\ Cardinality(Range(released')) = Len(released')
          /\ \A i, j \in DOMAIN released' :
                i < j => /\ released'[j] \in Device => released'[i] \in Device
                         /\ released'[j] # "g_drv"
                         /\ released'[i] # "g_context"
          /\ \A h \in Handles : res'[h] # "double"
          /\ pc = "cleaned" => released' = released /\ res' = res]_vars

\* cleanup has run twice on a fully initialised process: six deletes in all
C17_Witness ==
    /\ pc = "cleaned_again"
    /\ released = CleanupOrder
    /\ \A h \in Handles : res[h] = "freed"
    /\ g_ptr = {}

\* C18: the run flag is looked at only at the top of the loop: with the flag
\* cleared, the stages of the iteration in progress still run in their order,
\* no acquisition is started, the loop test leads to cleanup, and main
\* eventually returns with every handle released.
C18_CooperativeStop ==
    /\ [][/\ (pc' = "grab" /\ pc # "grab") => (pc = "loop" /\ g_running)
          /\ (~g_running /\ pc = "loop" /\ pc' # pc) => pc' = "cleanup"
          /\ (~g_running /\ pc = "grab" /\ pc' # pc) =>
                pc' \in {"poll", "loop", "cleanup"}
          /\ (~g_running /\ pc = "poll" /\ pc' # pc) => pc' = "clean"
          /\ (~g_running /\ pc = "clean" /\ pc' # pc) => pc' = "heartbeat"
          /\ (~g_running /\ pc = "heartbeat" /\ pc' # pc) => pc' = "loop"
          /\ (g_running' # g_running) => (pc' = pc /\ ~g_running')]_vars
    /\ (~g_running /\ pc \in LoopPcs) ~> (pc = "done" /\ g_ptr = {})

\* main has returned through cleanup after the stop signal, with objects of
\* completed iterations still in the cache
C18_Witness ==
    /\ pc = "done"
    /\ ~g_running
    /\ exitReason = "signal"
    /\ g_ptr = {}
    /\ DOMAIN g_objects # {}

\* C19: a profile message is sent exactly in the cycles that reach the
\* profile publish with a profile that is not empty and the flag set; no other
\* step sends one; and a step that changes the flag changes nothing else.
C19_ProfileToggle ==
    [][/\ (pc = "grab" /\ pc' = "poll") =>
             (profOut'.type = "LIDAR_DATA" <=>
                 (DOMAIN downsampledPoints' # {} /\ g_publish_lidar_data))
       /\ ~(pc = "grab" /\ pc' = "poll") =>
             (profOut' = NoMsg \/ (profOut' = profOut /\ pc' = pc))
       /\ profOut'.type = "LIDAR_DATA" => profOut'.points = downsampledPoints'
       /\ g_publish_lidar_data' # g_publish_lidar_data =>
             UNCHANGED <<pc, now, g_running, g_ptr, res, consecutive_failures,
                         nodes, downsampledPoints, g_angle_buckets, g_objects,
                         g_last_obj_publish_time, new_detections, objOut, profOut,
                         exitCode, exitReason, grabHist, variant, inbound,
                         replaced, released>>]_vars

\* with profile publishing off, a cycle built a profile, sent no profile
\* message and went on to publish a correlated object
C19_Witness ==
    /\ pc = "clean"
    /\ ~g_publish_lidar_data
    /\ DOMAIN downsampledPoints # {}
    /\ new_detections
    /\ objOut.type = "OBJECTS"

Delivered(msg) == IF msg = NoMsg THEN msg ELSE [msg EXCEPT !.delivered = TRUE]

SendFailed(msg) == msg # NoMsg /\ ~msg.delivered

InHalfOpenTurn(a) == -180 * AngleUnit < a /\ a <= 180 * AngleUnit

\* C22 as stated: the converted angle lies in (-180, 180] and converting it
\* again after adding 360 gives the same angle
C22_WrapIdempotence ==
    pc = "converted" =>
        /\ InHalfOpenTurn(angleOut)
        /\ convertRawAngleToDegrees(angleOut + 360 * AngleUnit) = angleOut

\* C22: the converted angle lies in (-180, 180], it does not change when 360
\* is added to the raw angle, and the wrap into (-180, 180] of the converted
\* angle plus 360, without a second negation, is the converted angle
C22_RangeAndPeriod ==
    pc = "converted" =>
        /\ InHalfOpenTurn(angleOut)
        /\ convertRawAngleToDegrees(rawIn + 360 * AngleUnit) = angleOut
        /\ WrapDown(WrapUp(angleOut + 360 * AngleUnit)) = angleOut

\* a raw angle of more than one turn has been converted
C22_Witness ==
    /\ pc = "converted"
    /\ rawIn = 540 * AngleUnit
    /\ angleOut = 180 * AngleUnit

\* a step of main that follows a scan acquisition that succeeded
GrabSucceeded == pc = "grab" /\ pc' # pc /\ grabHist' = <<"ok">>

\* a step of main that follows a scan acquisition that failed
GrabFailed ==
    pc = "grab" /\ pc' # pc /\ consecutive_failures' = consecutive_failures + 1

\* C23: every successful acquisition, also of a scan of zero samples, is
\* followed by the reduction, then the poll, then the eviction, then the
\* heartbeat check, each once, before the loop test of the next iteration.
C23_EveryStageEachCycle ==
    [][ /\ GrabSucceeded =>
             /\ pc' = "poll"
             /\ g_angle_buckets' = ReduceScan(variant, nodes').buckets
        /\ (pc = "poll" /\ pc' # pc) => pc' = "clean"
        /\ (pc = "clean" /\ pc' # pc) =>
             /\ pc' = "heartbeat"
             /\ g_objects' = cleanOldObjects(g_objects, now)
        /\ (pc = "heartbeat" /\ pc' # pc) => pc' = "loop"
      ]_vars

\* C24: a failed acquisition that leaves the counter below the threshold is
\* followed by the recovery and the next iteration of the loop, and the loop
\* is left for cleanup, other than on the stop signal, only with the counter
\* at the threshold.
C24_RecoverBelowThreshold ==
    [][ /\ (GrabFailed /\ ~TooManyFailures(consecutive_failures')) =>
             /\ pc' = "loop"
             /\ now' >= now + 2 * SCAN_DELAY_MS
        /\ (pc' = "cleanup" /\ pc # "cleanup" /\ exitReason' # "signal") =>
             TooManyFailures(consecutive_failures')
      ]_vars

\* the pairs of data-holding buckets, at most two bucket widths apart, that
\* are equally near to angle a and nearer than every other bucket
Ties(buckets, a) ==
    {p \in (DOMAIN buckets) \X (DOMAIN buckets) :
        /\ p[1] < p[2]
        /\ p[2] - p[1] <= 2 * ANGLE_BUCKET_SIZE
        /\ a - p[1] * AngleUnit = p[2] * AngleUnit - a
        /\ \A c \in DOMAIN buckets :
             Abs(a - c * AngleUnit) >= a - p[1] * AngleUnit}

\* C25: a detection whose angle is equally near to two buckets that hold data
\* is stored with the smaller of the two bucket distances, on the exact-bucket
\* path and on the probing path.
C25_TiePrefersCloser ==
    (pc = "polled" /\ Len(Dets(inbound)) = 1) =>
        LET det == Dets(inbound)[1]
            a == DetAngle(det)
            id == ObjId(DetLabel(det), a)
        IN \A p \in Ties(g_angle_buckets, a) :
             /\ id \in DOMAIN g_objects
             /\ g_objects[id].distance_mm =
                    SetMin({g_angle_buckets[p[1]], g_angle_buckets[p[2]]})

\* C26: when main has returned, by whichever path, every resource that was
\* acquired has been released, and none has been released twice.
C26_ReleasedExactlyOnce ==
    pc = "done" => \A h \in Handles : res[h] \in {"none", "freed"}

\* C27: the flag of an objects-out message is set when the heartbeat timer
\* triggered the publish and clear when a new or updated object of the
\* cycle triggered it.
C27_FlagTellsTriggers ==
    [][ (pc' # pc /\ objOut' # NoMsg) =>
            (objOut'.forced <=> pc = "heartbeat")
      ]_vars

\* C28: the poll stage of an iteration receives at most one message, however
\* many batches arrived, and correlates the detections of that message only;
\* no other stage receives; and when nothing arrived the stage receives
\* nothing, leaves the cache and the timer alone, publishes nothing and
\* hands over to the eviction without the clock having advanced.
C28_OneBatchPerIteration ==
    [][ /\ (pc = "poll" /\ pc' # pc) =>
             /\ received' <= 1
             /\ received' = 0 <=> inbound' = NoInbound
             /\ g_objects' = Correlate(g_angle_buckets, Dets(inbound'),
                                       BatchTime(now), g_objects).objs
             /\ arrived' = 0 =>
                  /\ received' = 0
                  /\ ~new_detections'
                  /\ objOut' = NoMsg
                  /\ UNCHANGED <<g_objects, g_last_obj_publish_time, now>>
                  /\ pc' = "clean"
        /\ (pc # "poll" /\ pc' # pc) =>
             /\ received' = 0
             /\ inbound' = NoInbound
      ]_vars

\* several batches arrived before a poll and one was received and correlated
C28_Witness ==
    /\ pc = "clean"
    /\ arrived >= 2
    /\ received = 1
    /\ inbound.kind = "batch"
    /\ new_detections

\* C29: every entry of the cache has a distance within [MIN_DISTANCE_MM,
\* MAX_DISTANCE_MM], and an entry written by a step carries the distance of a
\* bucket of the profile built from the scan of this cycle that lies within
\* MAX_ANGLE_DIFF of the entry's angle.
C29_CacheDistances ==
    [][ \A k \in DOMAIN g_objects' :
          LET obj == g_objects'[k]
          IN /\ MIN_DISTANCE_MM * DistUnit <= obj.distance_mm
             /\ obj.distance_mm <= MAX_DISTANCE_MM * DistUnit
             /\ (k \notin DOMAIN g_objects \/ obj # g_objects[k]) =>
                  /\ g_angle_buckets = ReduceScan(variant, nodes).buckets
                  /\ \E b \in DOMAIN g_angle_buckets :
                       /\ g_angle_buckets[b] = obj.distance_mm
                       /\ Abs(obj.angle_deg - b * AngleUnit)
                              <= MAX_ANGLE_DIFF * AngleUnit
      ]_vars

\* an entry has just been written with the distance of a bucket
C29_Witness ==
    /\ pc = "clean"
    /\ \E k \in DOMAIN g_objects, b \in DOMAIN g_angle_buckets :
         /\ g_objects[k].last_update_ms = now
         /\ g_objects[k].distance_mm = g_angle_buckets[b]
         /\ k \in DOMAIN replaced

====
